---- MODULE Spec2Model ----
(***************************************************************************)
(* Bundle Editor (src/gui.py): a table of localisation rows loaded from a  *)
(* CSV file by a background thread, filtered by three controls, edited     *)
(* through a modal dialog and written back to the current file.            *)
(*                                                                         *)
(* Text is a sequence of one-character strings, so that str.lower, the     *)
(* substring test `in` and the csv quoting are computed, not assumed.      *)
(* A row is <<index, type, source, translation>>: row[k+1] is Python's     *)
(* row[k].                                                                 *)
(***************************************************************************)
EXTENDS Integers, Sequences, FiniteSets

\* ------------------------------------------------------------------ bounds
\* Open actions, Save actions and edit dialogs in one run
MaxOps == 2
\* rows of the tables the filters and the statistics are tried on
MaxTotal == 50
\* characters the translation pane takes from the glossary
MaxLen == 1

\* ------------------------------------------------------------- text helpers
\* str.lower() on the characters the model uses
LowerChar(c) ==
    IF c = "A" THEN "a" ELSE IF c = "B" THEN "b" ELSE IF c = "L" THEN "l" ELSE c

lower(s) == [i \in 1..Len(s) |-> LowerChar(s[i])]

\* Python's `p in s` for strings
IsSubstr(p, s) ==
    \E i \in 0..(Len(s) - Len(p)) : SubSeq(s, i + 1, i + Len(p)) = p

HEADERS == << <<"I", "n", "d", "e", "x">>,
              <<"T", "y", "p", "e">>,
              <<"S", "o", "u", "r", "c", "e">>,
              <<"T", "r", "a", "n", "s", "l", "a", "t", "e">> >>
RAW_HEADERS == << <<"f", "i", "l", "e", "_", "i", "n", "d", "e", "x">>,
                  <<"f", "i", "l", "e", "_", "t", "y", "p", "e">>,
                  <<"s", "o", "u", "r", "c", "e", "_", "l", "a", "n", "g", "u", "a", "g", "e">>,
                  <<"d", "e", "s", "t", "i", "n", "a", "t", "i", "o", "n", "_", "l", "a", "n", "g", "u", "a", "g", "e">> >>
ALL == <<"A", "L", "L">>

\* ------------------------------------------------------ binary64 arithmetic
\* A positive double is [h, m, l, e] with significand
\* h * 2^34 + m * 2^16 + l (53 bits: 2^18 <= h < 2^19, m < 2^18, l < 2^16)
\* and value significand * 2^e. TLC's integers are 32 bits wide, so the
\* significand is kept in three limbs.
Pow2(n) == 2^n

\* round-to-nearest-even: add one unit in the last place when the dropped part
\* is above one half, or is one half and the kept significand is odd
RoundUp(x, guard, sticky) ==
    IF ~(guard = 1 /\ (sticky \/ x.l % 2 = 1)) THEN x
    ELSE IF x.l + 1 < Pow2(16) THEN [x EXCEPT !.l = x.l + 1]
    ELSE IF x.m + 1 < Pow2(18) THEN [x EXCEPT !.l = 0, !.m = x.m + 1]
    ELSE IF x.h + 1 < Pow2(19) THEN [x EXCEPT !.l = 0, !.m = 0, !.h = x.h + 1]
    ELSE [h |-> Pow2(18), m |-> 0, l |-> 0, e |-> x.e + 1]

RECURSIVE Normalise(_, _, _)
\* the least k with n * 2^k >= d, returned with the scaled numerator
Normalise(n, d, k) ==
    IF n >= d THEN <<n, k>> ELSE Normalise(2 * n, d, k + 1)

\* n / d in binary64 for 1 <= n <= d < 2^13 (Python's int / int is correctly
\* rounded): 53 quotient bits by long division, then the guard bit and the
\* remainder decide the rounding
FloatDiv(n, d) ==
    LET nk == Normalise(n, d, 0)
        r0 == nk[1] - d
        d1 == (r0 * Pow2(18)) \div d
        r1 == (r0 * Pow2(18)) % d
        d2 == (r1 * Pow2(18)) \div d
        r2 == (r1 * Pow2(18)) % d
        d3 == (r2 * Pow2(17)) \div d
        r3 == (r2 * Pow2(17)) % d
    IN  RoundUp([h |-> Pow2(18) + d1, m |-> d2, l |-> d3 \div 2, e |-> -nk[2] - 52],
                d3 % 2, r3 # 0)

\* x * 100 in binary64: the exact product has 59 or 60 bits, of which the low
\* 6 or 7 are rounded away
FloatMul100(x) ==
    LET l100 == x.l * 100
        m100 == x.m * 100 + l100 \div Pow2(16)
        ph == x.h * 100 + m100 \div Pow2(18)
        pm == m100 % Pow2(18)
        pl == l100 % Pow2(16)
        s == IF ph < Pow2(25) THEN 6 ELSE 7
        dropped == pl % Pow2(s)
    IN  RoundUp([h |-> ph \div Pow2(s),
                 m |-> ((ph % Pow2(s)) * Pow2(18) + pm) \div Pow2(s),
                 l |-> ((pm % Pow2(s)) * Pow2(16) + pl) \div Pow2(s),
                 e |-> x.e + s],
                dropped \div Pow2(s - 1), dropped % Pow2(s - 1) # 0)

\* int(x) for a double 0 < x < 2^19
FloatToInt(x) ==
    IF -x.e - 34 >= 19 THEN 0 ELSE x.h \div Pow2(-x.e - 34)

\* int((total - untranslated) / total * 100) if total > 0 else 0
percent_of(total, untranslated) ==
    IF total > 0
    THEN IF total - untranslated = 0 THEN 0
         ELSE FloatToInt(FloatMul100(FloatDiv(total - untranslated, total)))
    ELSE 0

\* ------------------------------------------------------------ CSVTableModel
\* the closure match(row) of apply_filter; the filters arrive lower-cased
match(row, text_filter, file_type_filter, show_untranslated) ==
    LET file_type == lower(row[2])
        source == lower(row[3])
        dest == lower(row[4])
        untranslated == dest = <<>>
    IN  /\ (~show_untranslated \/ untranslated)
        /\ (IsSubstr(text_filter, source) \/ IsSubstr(text_filter, dest))
        /\ IsSubstr(file_type_filter, file_type)

\* CSVTableModel.apply_filter: the new filtered_data. The list holds the row
\* objects of original_data themselves, so it is kept as their positions.
apply_filter(data, text_filter, file_type_filter, show_untranslated) ==
    SelectSeq([i \in 1..Len(data) |-> i],
              LAMBDA i : match(data[i], lower(text_filter),
                               lower(file_type_filter), show_untranslated))

\* list.index(value): the first position holding an equal value
index_of(data, value) ==
    CHOOSE i \in 1..Len(data) :
        data[i] = value /\ \A j \in 1..(i - 1) : data[j] # value

\* CSVTableModel.set_translation: the new original_data. The row found by
\* value and the row object shown in the view are both assigned.
set_translation(data, filtered, row, new_value) ==
    LET index_in_original == index_of(data, data[filtered[row]])
    IN  [i \in 1..Len(data) |->
            IF i = index_in_original \/ i = filtered[row]
            THEN [data[i] EXCEPT ![4] = new_value]
            ELSE data[i]]

\* CSVTableModel.stats
stats(data) ==
    LET total == Len(data)
        untranslated == Cardinality({i \in 1..Len(data) : data[i][4] = <<>>})
    IN  <<total, untranslated, percent_of(total, untranslated)>>

\* CSVEditor.calc_filter_data: "ALL", then each type at its first occurrence
RECURSIVE calc_filter_data_from(_, _, _)
calc_filter_data_from(rows, i, unique) ==
    IF i > Len(rows) THEN unique
    ELSE calc_filter_data_from(rows, i + 1,
            IF \E k \in 1..Len(unique) : unique[k] = rows[i][2]
            THEN unique ELSE Append(unique, rows[i][2]))

calc_filter_data(rows) == calc_filter_data_from(rows, 1, <<ALL>>)

\* ---------------------------------------------------------------------- csv
\* A file is the sequence of its lines; a line is text without terminator.
Special == {",", "\""}

\* csv.writer, QUOTE_MINIMAL: a field holding a delimiter or a quote is
\* wrapped in quotes, its quotes doubled
RECURSIVE DoubleQuotes(_)
DoubleQuotes(f) ==
    IF f = <<>> THEN <<>>
    ELSE (IF Head(f) = "\"" THEN <<"\"", "\"">> ELSE <<Head(f)>>)
         \o DoubleQuotes(Tail(f))

write_field(f) ==
    IF \E i \in 1..Len(f) : f[i] \in Special
    THEN <<"\"">> \o DoubleQuotes(f) \o <<"\"">>
    ELSE f

RECURSIVE writerow_from(_, _)
writerow_from(row, i) ==
    IF i > Len(row) THEN <<>>
    ELSE (IF i > 1 THEN <<",">> ELSE <<>>) \o write_field(row[i])
         \o writerow_from(row, i + 1)

writerow(row) == writerow_from(row, 1)

\* csv.reader on one line: the state machine of the parser (START_FIELD,
\* IN_FIELD, IN_QUOTED_FIELD, QUOTE_IN_QUOTED_FIELD), non-strict dialect
RECURSIVE parse_from(_, _, _, _, _)
parse_from(line, i, state, field, fields) ==
    IF i > Len(line) THEN Append(fields, field)
    ELSE LET c == line[i] IN
         CASE state = "START_FIELD" ->
                IF c = "\"" THEN parse_from(line, i + 1, "IN_QUOTED_FIELD", field, fields)
                ELSE IF c = "," THEN parse_from(line, i + 1, "START_FIELD", <<>>, Append(fields, field))
                ELSE parse_from(line, i + 1, "IN_FIELD", Append(field, c), fields)
           [] state = "IN_FIELD" ->
                IF c = "," THEN parse_from(line, i + 1, "START_FIELD", <<>>, Append(fields, field))
                ELSE parse_from(line, i + 1, "IN_FIELD", Append(field, c), fields)
           [] state = "IN_QUOTED_FIELD" ->
                IF c = "\"" THEN parse_from(line, i + 1, "QUOTE_IN_QUOTED_FIELD", field, fields)
                ELSE parse_from(line, i + 1, "IN_QUOTED_FIELD", Append(field, c), fields)
           [] OTHER ->
                IF c = "\"" THEN parse_from(line, i + 1, "IN_QUOTED_FIELD", Append(field, c), fields)
                ELSE IF c = "," THEN parse_from(line, i + 1, "START_FIELD", <<>>, Append(fields, field))
                ELSE parse_from(line, i + 1, "IN_FIELD", Append(field, c), fields)

\* an empty line reads as the empty row
parse_line(line) ==
    IF line = <<>> THEN <<>> ELSE parse_from(line, 1, "START_FIELD", <<>>, <<>>)

\* CSVLoaderThread.run: data = list(reader); rows = data[1:]
read_rows(file) ==
    [i \in 1..(Len(file) - 1) |-> parse_line(file[i + 1])]

\* -------------------------------------------------------------- environment
Files == {"f1", "f2"}
NoFile == "none"

\* the tables the two files hold at start: two rows equal in every field and
\* a type that contains another type in the first, a quote in the second
Table1 == << << <<"1">>, <<"a">>, <<"a", "b">>, <<>> >>,
             << <<"1">>, <<"a">>, <<"a", "b">>, <<>> >>,
             << <<"2">>, <<"a", "b">>, <<"b">>, <<"A">> >> >>
Table2 == << << <<"1">>, <<"A">>, <<"\"", "a">>, <<>> >> >>

\* what the user types: into the search box, into the translation pane
SearchTexts == {<<>>, <<"B">>}
TypedTexts == {<<"A", ",">>}

\* glossary.md as parsed by get_glossary: (term, translation) pairs
Glossary == << << <<"a">>, <<"b">> >> >>

\* GlossaryHighlighter.highlightBlock over the source pane, then
\* EditDialog.update_list: the terms found, each with its first translation
found_terms(text) ==
    {Glossary[k][1] : k \in {j \in 1..Len(Glossary) :
                                IsSubstr(lower(Glossary[j][1]), lower(text))}}

glossary_value(name) ==
    Glossary[CHOOSE k \in 1..Len(Glossary) :
                Glossary[k][1] = name
                /\ \A j \in 1..(k - 1) : Glossary[j][1] # name][2]

\* ------------------------------------------------------------------- state
VARIABLES
    disk,             \* the CSV files: path -> lines
    recent,           \* the "recent" file of the config directory
    running,          \* CSVLoaderThreads started whose run() has not read yet:
                      \* path -> how many
    queue,            \* loaded(headers, rows) signals emitted, not yet delivered
    has_model,        \* self.model is not None
    original_data,    \* self.model.original_data
    filtered_data,    \* self.model.filtered_data, as positions in original_data
    filter_data,      \* the items of the type combo box
    file_type_filter, \* its current text
    search_line_edit, \* the text of the search box
    show_untranslated,\* the checkbox
    stats_label,      \* the triple shown in the label, or "No data"
    current_file,     \* self.current_file
    can_save,         \* self.can_save
    table_enabled,    \* self.table.isEnabled()
    save_enabled,     \* self.save_action.isEnabled()
    ui,               \* which modal loop runs: idle, edit, ask_save, ask_exit;
                      \* closed after exit, crashed after an abort, when
                      \* nothing but the files is left
    dialog,           \* the EditDialog: view row, source pane, translation pane
    pending_file,     \* the path chosen in load_csv while its question is up
    \* history, read by the properties only
    ev,               \* the step taken last, where a property asks for it
    nops,             \* Open actions, Save actions and edit dialogs so far
    edited,           \* an edit was committed since the last save or load
    model_file,       \* the path the table in memory was read from
    asked             \* the save question was shown since the last committed edit

vars == <<disk, recent, running, queue, has_model, original_data, filtered_data,
          filter_data, file_type_filter, search_line_edit, show_untranslated,
          stats_label, current_file, can_save, table_enabled, save_enabled, ui,
          dialog, pending_file, ev, nops, edited, model_file, asked>>

NoDialog == [row |-> 0, source |-> <<>>, text |-> <<>>]
NoData == <<"No data">>

\* CSVEditor.__init__: nothing is loaded; when the recent file names an
\* existing file, a loader thread for it is already running
NoThreads == [f \in Files |-> 0]

\* what a fresh process holds in memory
Blank ==
    /\ queue' = <<>>
    /\ has_model' = FALSE
    /\ original_data' = <<>>
    /\ filtered_data' = <<>>
    /\ filter_data' = <<>>
    /\ file_type_filter' = <<>>
    /\ search_line_edit' = <<>>
    /\ show_untranslated' = FALSE
    /\ stats_label' = NoData
    /\ can_save' = FALSE
    /\ table_enabled' = TRUE
    /\ save_enabled' = FALSE
    /\ dialog' = NoDialog
    /\ pending_file' = NoFile
    /\ edited' = FALSE
    /\ model_file' = NoFile
    /\ asked' = FALSE

\* a file as the export tool leaves it: the display header, then the rows
initial_file(table) ==
    <<writerow(HEADERS)>> \o [i \in 1..Len(table) |-> writerow(table[i])]

Init ==
    /\ disk = [f \in Files |-> initial_file(IF f = "f1" THEN Table1 ELSE Table2)]
    /\ recent \in Files \cup {NoFile}
    /\ running = [f \in Files |-> IF f = recent THEN 1 ELSE 0]
    /\ current_file = recent
    /\ queue = <<>>
    /\ has_model = FALSE
    /\ original_data = <<>>
    /\ filtered_data = <<>>
    /\ filter_data = <<>>
    /\ file_type_filter = <<>>
    /\ search_line_edit = <<>>
    /\ show_untranslated = FALSE
    /\ stats_label = NoData
    /\ can_save = FALSE
    /\ table_enabled = TRUE
    /\ save_enabled = FALSE
    /\ ui = "idle"
    /\ dialog = NoDialog
    /\ pending_file = NoFile
    /\ ev = "other"
    /\ nops = 0
    /\ edited = FALSE
    /\ model_file = NoFile
    /\ asked = FALSE

\* The process ends, by exit (closed) or by abort (crashed): the files stay,
\* the memory is gone.
Terminate(how, e, files) ==
    /\ ui' = how
    /\ ev' = e
    /\ disk' = files
    /\ running' = NoThreads
    /\ current_file' = NoFile
    /\ Blank
    /\ UNCHANGED <<recent, nops>>

\* An exception that leaves a slot or run(): PyQt5 from 5.5 on aborts the
\* process, earlier versions print it and return to the event loop.
Abort(e) == Terminate("crashed", e, disk)

\* CSVEditor.apply_filter: "ALL" selects every type
current_filter(data, text, type, untranslated) ==
    apply_filter(data, text, IF type = ALL THEN <<>> ELSE type, untranslated)

\* groups of variables the steps leave alone
table_vars == <<has_model, original_data, filtered_data, filter_data, stats_label, model_file>>
control_vars == <<file_type_filter, search_line_edit, show_untranslated>>
thread_vars == <<running, queue>>
save_vars == <<disk, table_enabled, save_enabled, can_save, edited>>
load_vars == <<current_file, running, nops>>

Alive == ui \notin {"closed", "crashed"}

\* ------------------------------------------------------------------ save_csv
\* open(self.current_file, "w") raises when the file cannot be written
save_raises(ok) == has_model /\ current_file # NoFile /\ ~ok

\* a save that writes the rows the view shows
save_lines_of_view(data) ==
    <<writerow(RAW_HEADERS)>>
        \o [i \in 1..Len(filtered_data) |-> writerow(data[filtered_data[i]])]

\* the lines save_csv writes: the header, then one line per row of
\* original_data
save_lines(data) ==
    <<writerow(RAW_HEADERS)>> \o [i \in 1..Len(data) |-> writerow(data[i])]

\* a save that resets can_save before it opens the file
save_csv_resets_early(ok) ==
    IF ~has_model \/ current_file = NoFile \/ ~ok
    THEN /\ table_enabled' = FALSE
         /\ save_enabled' = FALSE
         /\ can_save' = FALSE
         /\ UNCHANGED <<disk, edited>>
    ELSE /\ disk' = [disk EXCEPT ![current_file] = save_lines(original_data)]
         /\ table_enabled' = TRUE
         /\ save_enabled' = TRUE
         /\ can_save' = FALSE
         /\ edited' = FALSE

\* CSVEditor.save_csv: table and action are disabled first and enabled again
\* only when the rows have been written
save_csv(ok) ==
    IF ~has_model \/ current_file = NoFile \/ ~ok
    THEN /\ table_enabled' = FALSE
         /\ save_enabled' = FALSE
         /\ UNCHANGED <<disk, can_save, edited>>
    ELSE /\ disk' = [disk EXCEPT ![current_file] = save_lines(original_data)]
         /\ table_enabled' = TRUE
         /\ save_enabled' = TRUE
         /\ can_save' = FALSE
         /\ edited' = FALSE

\* the Save action of the File menu
SaveCsv ==
    /\ ui = "idle"
    /\ save_enabled
    /\ nops < MaxOps
    /\ \E ok \in BOOLEAN :
        \/ /\ save_raises(ok)
           /\ Abort("save_failed")
        \/ /\ save_csv(ok)
           /\ ev' = IF save_raises(ok) THEN "save_failed" ELSE "save_ok"
           /\ nops' = nops + 1
           /\ UNCHANGED <<recent, table_vars, control_vars, thread_vars, current_file,
                          ui, dialog, pending_file, asked>>

\* ------------------------------------------------------------------ load_csv
\* the tail of load_csv: self.current_file = file_path, then a new
\* CSVLoaderThread replaces self.thread and is started
start_load(f) ==
    /\ current_file' = f
    /\ nops' = nops + 1
    /\ running' = [running EXCEPT ![f] = @ + 1]
    /\ ui' = "idle"
    /\ pending_file' = NoFile

\* Dropping the last reference to a QThread that still runs destroys it while
\* running: the process aborts, or the thread survives, as the build has it.
thread_dropped == \E f \in Files : running[f] > 0

\* the Open action: a file is chosen; with unsaved edits the question
\* "Save current opened file?" is put first
LoadCsv(f) ==
    /\ ui = "idle"
    /\ nops < MaxOps
    /\ \/ /\ can_save
          /\ ui' = "ask_save"
          /\ pending_file' = f
          /\ asked' = TRUE
          /\ ev' = "other"
          /\ UNCHANGED <<load_vars, disk, recent, queue, table_vars, control_vars,
                         can_save, table_enabled, save_enabled, dialog, edited>>
       \/ /\ ~can_save
          /\ start_load(f)
          /\ ev' = "other"
          /\ UNCHANGED <<asked, disk, recent, queue, table_vars, control_vars,
                         can_save, table_enabled, save_enabled, dialog, edited>>
       \/ /\ ~can_save
          /\ thread_dropped
          /\ Abort("other")

\* the answer to the question of load_csv
AnswerSave(reply) ==
    /\ ui = "ask_save"
    /\ \/ /\ reply = "No"
          /\ start_load(pending_file)
          /\ ev' = "other"
          /\ UNCHANGED <<save_vars, recent, queue, table_vars, control_vars, dialog, asked>>
       \/ /\ reply = "No"
          /\ thread_dropped
          /\ Abort("other")
       \/ /\ reply = "Yes"
          /\ \E ok \in BOOLEAN :
               \/ /\ save_raises(ok)
                  /\ Abort("save_failed")
               \/ /\ save_raises(ok)
                  /\ save_csv(ok)
                  /\ ui' = "idle"
                  /\ pending_file' = NoFile
                  /\ ev' = "save_failed"
                  /\ UNCHANGED <<load_vars, recent, queue, table_vars, control_vars,
                                 dialog, asked>>
               \/ /\ ~save_raises(ok)
                  /\ save_csv(ok)
                  /\ start_load(pending_file)
                  /\ ev' = "save_ok"
                  /\ UNCHANGED <<recent, queue, table_vars, control_vars, dialog, asked>>
               \/ /\ ~save_raises(ok)
                  /\ thread_dropped
                  /\ Terminate("crashed", "save_ok",
                               [disk EXCEPT ![current_file] = save_lines(original_data)])

\* CSVLoaderThread.run: the file is read and loaded(HEADERS, rows) emitted;
\* a file that cannot be opened raises in the thread and nothing is emitted
ThreadRun(f, ok) ==
    /\ Alive
    /\ running[f] > 0
    /\ \/ /\ ok
          /\ running' = [running EXCEPT ![f] = @ - 1]
          /\ queue' = Append(queue, [file |-> f, rows |-> read_rows(disk[f])])
          /\ ev' = "other"
          /\ UNCHANGED <<ui, disk, recent, table_vars, control_vars, current_file,
                         can_save, table_enabled, save_enabled, dialog, pending_file,
                         nops, edited, asked>>
       \/ /\ ~ok
          /\ running' = [running EXCEPT ![f] = @ - 1]
          /\ ev' = "load_failed"
          /\ UNCHANGED <<ui, queue, disk, recent, table_vars, control_vars,
                         current_file, can_save, table_enabled, save_enabled, dialog,
                         pending_file, nops, edited, asked>>
       \/ /\ ~ok
          /\ Abort("load_failed")

\* CSVEditor.on_csv_loaded, the slot of the queued signal: it runs in whichever
\* event loop is current, also the one of an open dialog. The combo box is
\* refilled and set to "ALL", the model replaced and filtered.
OnCsvLoaded ==
    /\ Alive
    /\ queue # <<>>
    /\ LET rows == Head(queue).rows IN
        /\ queue' = Tail(queue)
        /\ save_enabled' = TRUE
        /\ filter_data' = calc_filter_data(rows)
        /\ file_type_filter' = ALL
        /\ has_model' = TRUE
        /\ original_data' = rows
        /\ filtered_data' = current_filter(rows, search_line_edit, ALL, show_untranslated)
        /\ stats_label' = stats(rows)
        /\ can_save' = FALSE
        /\ recent' = current_file
        /\ model_file' = Head(queue).file
        /\ edited' = FALSE
        /\ ev' = "other"
    /\ UNCHANGED <<disk, running, search_line_edit, show_untranslated, current_file,
                   table_enabled, ui, dialog, pending_file, nops, asked>>

\* -------------------------------------------------------------- the filters
\* CSVEditor.apply_filter followed by update_stats, run by a change of any of
\* the three controls (they are enabled once a file is loaded)
refilter(text, type, untranslated) ==
    /\ filtered_data' = current_filter(original_data, text, type, untranslated)
    /\ stats_label' = stats(original_data)
    /\ ev' = "other"
    /\ UNCHANGED <<disk, recent, thread_vars, has_model, original_data, filter_data,
                   model_file, current_file, can_save, table_enabled, save_enabled,
                   ui, dialog, pending_file, nops, edited, asked>>

SetSearch(text) ==
    /\ ui = "idle" /\ has_model
    /\ text # search_line_edit
    /\ search_line_edit' = text
    /\ refilter(text, file_type_filter, show_untranslated)
    /\ UNCHANGED <<file_type_filter, show_untranslated>>

SetType(k) ==
    /\ ui = "idle" /\ has_model
    /\ k \in 1..Len(filter_data)
    /\ filter_data[k] # file_type_filter
    /\ file_type_filter' = filter_data[k]
    /\ refilter(search_line_edit, filter_data[k], show_untranslated)
    /\ UNCHANGED <<search_line_edit, show_untranslated>>

ToggleUntranslated ==
    /\ ui = "idle" /\ has_model
    /\ show_untranslated' = ~show_untranslated
    /\ refilter(search_line_edit, file_type_filter, ~show_untranslated)
    /\ UNCHANGED <<file_type_filter, search_line_edit>>

\* ---------------------------------------------------------- edit_translation
\* a double click on view row `row`: the dialog is built (get_glossary raises
\* when glossary.md cannot be read) and its modal loop entered
EditOpen(row, glossary_ok) ==
    /\ ui = "idle" /\ has_model /\ table_enabled
    /\ nops < MaxOps
    /\ row \in 1..Len(filtered_data)
    /\ \/ /\ glossary_ok
          /\ dialog' = [row |-> row,
                        source |-> original_data[filtered_data[row]][3],
                        text |-> original_data[filtered_data[row]][4]]
          /\ ui' = "edit"
          /\ nops' = nops + 1
          /\ ev' = "other"
          /\ UNCHANGED <<disk, recent, thread_vars, table_vars, control_vars,
                         current_file, can_save, table_enabled, save_enabled,
                         pending_file, edited, asked>>
       \/ /\ ~glossary_ok
          /\ ev' = "other"
          /\ UNCHANGED <<disk, recent, thread_vars, table_vars, control_vars,
                         current_file, can_save, table_enabled, save_enabled, ui,
                         dialog, pending_file, nops, edited, asked>>
       \/ /\ ~glossary_ok
          /\ Abort("other")

\* a change of the translation pane
dialog_text(text) ==
    /\ ui = "edit"
    /\ dialog' = [dialog EXCEPT !.text = text]
    /\ ev' = "other"
    /\ UNCHANGED <<disk, recent, thread_vars, table_vars, control_vars, current_file,
                   can_save, table_enabled, save_enabled, ui, pending_file, nops, edited, asked>>

\* EditDialog.clone_text
CloneText == dialog.text # dialog.source /\ dialog_text(dialog.source)

\* EditDialog.clear_text
ClearText == dialog.text # <<>> /\ dialog_text(<<>>)

\* the user types
TypeText(text) == dialog.text # text /\ dialog_text(text)

\* EditDialog.on_glossary_clicked on the list entry of a term found in the
\* source pane: the translation of the term is appended
GlossaryClicked(name) ==
    /\ name \in found_terms(dialog.source)
    /\ Len(dialog.text) + Len(glossary_value(name)) <= MaxLen
    /\ dialog_text(dialog.text \o glossary_value(name))

\* the dialog is accepted: set_translation on the model as it is now (a load
\* may have replaced it while the dialog was open; a view row past the end
\* raises IndexError), then can_save and the statistics
EditAccept ==
    /\ ui = "edit"
    /\ \/ /\ dialog.row <= Len(filtered_data)
          /\ original_data' = set_translation(original_data, filtered_data,
                                              dialog.row, dialog.text)
          /\ can_save' = TRUE
          /\ stats_label' = stats(original_data')
          /\ edited' = TRUE
          /\ asked' = FALSE
          /\ ui' = "idle"
          /\ dialog' = NoDialog
          /\ ev' = "commit"
          /\ UNCHANGED <<disk, recent, thread_vars, has_model, filtered_data,
                         filter_data, model_file, control_vars, current_file,
                         table_enabled, save_enabled, pending_file, nops>>
       \/ /\ dialog.row > Len(filtered_data)
          /\ ui' = "idle"
          /\ dialog' = NoDialog
          /\ ev' = "other"
          /\ UNCHANGED <<disk, recent, thread_vars, table_vars, control_vars,
                         current_file, can_save, table_enabled, save_enabled,
                         pending_file, nops, edited, asked>>
       \/ /\ dialog.row > Len(filtered_data)
          /\ Abort("other")

\* the dialog is rejected
EditReject ==
    /\ ui = "edit"
    /\ dialog' = NoDialog
    /\ ui' = "idle"
    /\ ev' = "discard"
    /\ UNCHANGED <<disk, recent, thread_vars, table_vars, control_vars, current_file,
                   can_save, table_enabled, save_enabled, pending_file, nops, edited, asked>>

\* ---------------------------------------------------------------- closeEvent
\* the window is closed: with unsaved edits the question "Exit and save file?"
CloseEvent ==
    /\ ui = "idle"
    /\ \/ /\ can_save
          /\ ui' = "ask_exit"
          /\ ev' = "other"
          /\ UNCHANGED <<disk, recent, thread_vars, table_vars, control_vars,
                         current_file, can_save, table_enabled, save_enabled, dialog,
                         pending_file, nops, edited, asked>>
       \/ /\ ~can_save
          /\ Terminate("closed", "other", disk)

\* Yes saves and accepts, Abort accepts, No ignores the event; a close event
\* whose handler raises stays accepted
AnswerExit(reply) ==
    /\ ui = "ask_exit"
    /\ \/ /\ reply = "Yes"
          /\ \E ok \in BOOLEAN :
               \/ /\ save_raises(ok)
                  /\ \E how \in {"closed", "crashed"} : Terminate(how, "save_failed", disk)
               \/ /\ ~save_raises(ok)
                  /\ Terminate("closed", "save_ok",
                               IF has_model /\ current_file # NoFile
                               THEN [disk EXCEPT ![current_file] = save_lines(original_data)]
                               ELSE disk)
       \/ /\ reply = "Abort"
          /\ Terminate("closed", "other", disk)
       \/ /\ reply = "No"
          /\ ui' = "idle"
          /\ ev' = "other"
          /\ UNCHANGED <<save_vars, recent, thread_vars, table_vars, control_vars,
                         current_file, dialog, pending_file, nops, asked>>

\* ------------------------------------------------------------- specification
Next ==
    \/ \E f \in Files : LoadCsv(f)
    \/ \E reply \in {"Yes", "No"} : AnswerSave(reply)
    \/ \E f \in Files, ok \in BOOLEAN : ThreadRun(f, ok)
    \/ OnCsvLoaded
    \/ SaveCsv
    \/ \E text \in SearchTexts : SetSearch(text)
    \/ \E k \in 1..Len(filter_data) : SetType(k)
    \/ ToggleUntranslated
    \/ \E row \in 1..Len(filtered_data), glossary_ok \in BOOLEAN : EditOpen(row, glossary_ok)
    \/ CloneText
    \/ ClearText
    \/ \E text \in TypedTexts : TypeText(text)
    \/ \E name \in {Glossary[k][1] : k \in 1..Len(Glossary)} : GlossaryClicked(name)
    \/ EditAccept
    \/ EditReject
    \/ CloseEvent
    \/ \E reply \in {"Yes", "No", "Abort"} : AnswerExit(reply)

Spec == Init /\ [][Next]_vars

\* ----------------------------------------------- the filters on larger tables
\* A file of `total` rows, the first `untranslated` of them without
\* translation, has just been loaded; the three filter controls are then used.
sized_table(total, untranslated) ==
    [i \in 1..total |->
        << <<"1">>,
           IF i = 1 THEN <<"a", "b">> ELSE <<"a">>,
           IF i % 2 = 0 THEN <<"a", "b">> ELSE <<"b">>,
           IF i <= untranslated THEN <<>> ELSE <<"A">> >>]

InitFilter ==
    \E total \in 0..MaxTotal : \E untranslated \in 0..total :
        LET rows == sized_table(total, untranslated) IN
        /\ disk = [f \in Files |-> initial_file(IF f = "f1" THEN rows ELSE Table2)]
        /\ recent = "f1"
        /\ running = NoThreads
        /\ current_file = "f1"
        /\ queue = <<>>
        /\ has_model = TRUE
        /\ original_data = rows
        /\ filtered_data = current_filter(rows, <<>>, ALL, FALSE)
        /\ filter_data = calc_filter_data(rows)
        /\ file_type_filter = ALL
        /\ search_line_edit = <<>>
        /\ show_untranslated = FALSE
        /\ stats_label = stats(rows)
        /\ can_save = FALSE
        /\ table_enabled = TRUE
        /\ save_enabled = TRUE
        /\ ui = "idle"
        /\ dialog = NoDialog
        /\ pending_file = NoFile
        /\ ev = "other"
        /\ nops = 0
        /\ edited = FALSE
        /\ model_file = "f1"
        /\ asked = FALSE

NextFilter ==
    \/ \E text \in SearchTexts : SetSearch(text)
    \/ \E k \in 1..Len(filter_data) : SetType(k)
    \/ ToggleUntranslated

SpecFilter == InitFilter /\ [][NextFilter]_vars

\* ================================================================ properties
\* steps the properties speak of
LoadCompleted == Len(queue') < Len(queue) /\ Alive'
FilterChanged == control_vars' # control_vars /\ queue' = queue /\ Alive'
InFlight == running["f1"] + running["f2"] + Len(queue)

\* the three conditions of the filter as the specification words them
satisfies(row, text, type, untranslated_only) ==
    /\ type = <<>> \/ lower(row[2]) = lower(type)
    /\ text = <<>> \/ IsSubstr(lower(text), lower(row[3]))
                   \/ IsSubstr(lower(text), lower(row[4]))
    /\ ~untranslated_only \/ row[4] = <<>>

selected_type == IF file_type_filter = ALL THEN <<>> ELSE file_type_filter

\* C1: the view holds exactly the rows of the table, in table order, that
\* satisfy all three conditions, the type condition being equality of the
\* lower-cased types.
C1_ViewIsExactMatch ==
    has_model =>
        filtered_data =
            SelectSeq([i \in 1..Len(original_data) |-> i],
                      LAMBDA i : satisfies(original_data[i], search_line_edit,
                                           selected_type, show_untranslated))

\* C2: with a table loaded and no dialog open, the rows shown are the result
\* of the current predicate on the current table, also after a committed edit.
C2_ViewNeverStale ==
    (has_model /\ ui = "idle") =>
        filtered_data = current_filter(original_data, search_line_edit,
                                       file_type_filter, show_untranslated)

\* C3: a committed edit of the view row that shows table position p changes
\* the translation at p only: no other row changes, and index, type and
\* source change nowhere.
C3_OnlyTargetRowChanges ==
    [][ev' = "commit" =>
        /\ Len(original_data') = Len(original_data)
        /\ \A i \in 1..Len(original_data) :
             /\ SubSeq(original_data'[i], 1, 3) = SubSeq(original_data[i], 1, 3)
             /\ i # filtered_data[dialog.row] => original_data'[i] = original_data[i]
      ]_vars

\* C4: a save or load that fails leaves the table, the dirty flag and the
\* enabled state of table and save action as they were, and the path a later
\* save writes to is still the path of the table in memory.
C4_FailureKeepsState ==
    [][(ev' \in {"save_failed", "load_failed"} /\ Alive') =>
        /\ UNCHANGED <<has_model, original_data, can_save, table_enabled, save_enabled>>
        /\ (has_model /\ InFlight' = 0) => current_file' = model_file'
      ]_vars

\* C5: at most one load is in flight: no loader thread is started before the
\* callback of the load started before it has run.
C5_OneLoadInFlight == InFlight <= 1

\* C6: can_save is true exactly when an edit has been committed since the last
\* successful save or completed load: a commit sets it, a successful save and a
\* load completion clear it, and a discarded edit, a filter change and a failed
\* save change neither the flag nor the table.
C6_DirtyFlag ==
    /\ [](can_save = edited)
    /\ [][/\ ev' = "commit" => can_save'
          /\ (ev' = "save_ok" /\ Alive') => ~can_save'
          /\ LoadCompleted => ~can_save'
          /\ ((ev' \in {"discard", "save_failed"} /\ Alive') \/ FilterChanged) =>
                UNCHANGED <<can_save, has_model, original_data>>
       ]_vars

C6_Witness ==
    /\ ev = "save_failed" /\ ui = "idle"
    /\ can_save /\ edited
    /\ ~table_enabled

\* C7: a save writes the header line and then one line per row of the whole
\* table in table order, whatever the filter shows; reading the file back
\* gives the rows of the table, and saving those gives the same file.
C7_SaveRoundTrip ==
    [][ev' = "save_ok" =>
        LET file == disk'[current_file] IN
        /\ Len(file) = 1 + Len(original_data)
        /\ file[1] = writerow(RAW_HEADERS)
        /\ \A i \in 1..Len(original_data) : parse_line(file[i + 1]) = original_data[i]
        /\ read_rows(file) = original_data
        /\ save_lines(read_rows(file)) = file
      ]_vars

C7_Witness ==
    /\ ev = "save_ok" /\ ui = "idle"
    /\ Len(filtered_data) < Len(original_data)
    /\ \E i \in 1..Len(original_data) : original_data[i][4] # <<>>
    /\ read_rows(disk[current_file]) = original_data

\* C8: the statistics are (rows, rows without translation,
\* floor((rows - untranslated) * 100 / rows)), or (0, 0, 0) for no rows, of the
\* whole table, before and after any filter.
C8_StatsExact ==
    has_model =>
        LET total == Len(original_data)
            untranslated == Cardinality({i \in 1..total : original_data[i][4] = <<>>})
        IN  stats_label = <<total, untranslated,
                            IF total > 0
                            THEN ((total - untranslated) * 100) \div total
                            ELSE 0>>

\* C9: a save writes to path P the table that was read from P.
C9_SaveWritesOwnFile ==
    [][ev' = "save_ok" => model_file = current_file]_vars

\* C10: when a load completion replaces the table, the table replaced has no
\* committed and unsaved edit, or the save question was put after that edit.
C10_NoEditLostUnasked ==
    [][LoadCompleted => ~(has_model /\ edited /\ ~asked)]_vars

====
